---- MODULE Spec2Model ----
(***************************************************************************)
(* A model of src/src/server.rs of tokio-jsonrpc: the Server trait with    *)
(* its default callbacks, the Empty server, the AbstractServer wrapper     *)
(* and the LogServer of the test module.                                   *)
(*                                                                         *)
(* One handler H is driven in two ways at once: the "subject" copy is      *)
(* held either bare (server) or inside an AbstractServer                   *)
(* (abstract_server) and receives every call through whatever holds it;    *)
(* the "reference" copy receives the same calls directly.  Each copy has   *)
(* a ServerCtl of its own.  The futures a call returns are driven to       *)
(* completion by Wait, as the tests do with .wait().                       *)
(***************************************************************************)
EXTENDS Integers, Sequences, FiniteSets, TLC

\* Most calls delivered to a handler that is not a LogServer.
MaxCalls == 3
\* Most calls delivered to a LogServer (the ordering scenario takes five).
MaxLogCalls == 5

VARIABLES
    abstract_server, \* <<AbstractServer(H)>> while H is wrapped, else <<>>
    server,          \* <<H>> while the subject handler is held bare, else <<>>
    reference,       \* the copy of H that is always called directly
    ctl,             \* the ServerCtl handed to the subject
    ctlRef,          \* the ServerCtl handed to the reference
    call,            \* the latest call: [op, method, params, wrapped]
    ret,             \* what the latest call returned to the subject's caller
    retRef,          \* what the latest call returned from the reference
    res,             \* what driving ret's future to completion gave
    resRef,          \* what driving retRef's future to completion gave
    panic,           \* the message of the panic that unwound the caller, or ""
    trace,           \* the ops called so far, in arrival order
    through          \* how many of them were made on the AbstractServer

vars == <<abstract_server, server, reference, ctl, ctlRef, call, ret, retRef,
          res, resRef, panic, trace, through>>

-----------------------------------------------------------------------------
(* Values *)

None == [tag |-> "None"]
Some(x) == [tag |-> "Some", val |-> x]
Ok(x) == [tag |-> "Ok", val |-> x]
Err(e) == [tag |-> "Err", err |-> e]
\* A callback or a poll that unwinds instead of returning.
Panic(msg) == [tag |-> "Panic", msg |-> msg]
\* The return value of initialized.
Unit == [tag |-> "Unit"]
\* No future has been driven since the latest call.
NotPolled == [tag |-> "NotPolled"]

\* Values of the Rust types a handler may declare as Success.
RBool(b) == [ty |-> "bool", b |-> b]
RUnit == [ty |-> "()"]
RU64(n) == [ty |-> "u64", n |-> n]
\* A map whose keys are not strings: Serialize, but not representable in JSON.
RTupleKeyMap == [ty |-> "HashMap<(u8, u8), bool>"]

\* serde_json::Value
JBool(b) == [json |-> "Bool", b |-> b]
JNull == [json |-> "Null"]
JNumber(n) == [json |-> "Number", n |-> n]

\* serde_json::to_value on the Success values above.
to_value(v) ==
    CASE v.ty = "bool" -> Ok(JBool(v.b))
      [] v.ty = "()" -> Ok(JNull)
      [] v.ty = "u64" -> Ok(JNumber(v.n))
      [] OTHER -> Err("key must be a string")

RPCErrors ==
    { [code |-> -32602, message |-> "Invalid params"],
      [code |-> -32000, message |-> "Server error"] }

SuccessValues == { RBool(TRUE), RBool(FALSE), RUnit, RU64(7), RTupleKeyMap }

Methods == { "test", "notification", "another" }
ParamsSet == { None, Some(JBool(TRUE)) }

\* IntoFuture for Result: a future that is ready with the result.
IntoFuture(result) == [fut |-> "FutureResult", out |-> result]

ExpectMsg == "Your result type is not convertible to JSON, which is a bug"
AssertMsg == "assertion failed: params.is_none()"

-----------------------------------------------------------------------------
(* endpoint::ServerCtl, as the server module uses it *)

\* ServerCtl::new_test(): nothing requested yet, the dropped signal not fired.
NewCtl == [terminate_calls |-> 0, dropped |-> 0]

\* ServerCtl::terminate(): fires the dropped signal the first time only.
terminate(c) ==
    [terminate_calls |-> c.terminate_calls + 1,
     dropped |-> IF c.dropped = 0 THEN 1 ELSE c.dropped]

-----------------------------------------------------------------------------
(* trait Server: the default callbacks *)

Returned(self, c, r) == [self |-> self, ctl |-> c, ret |-> r]

Server_rpc(self, c, method, params) == Returned(self, c, None)

Server_notification_accepts(self, c, method, params) ==
    Returned(self, c, Some(IntoFuture(Ok(RUnit))))

Server_notification(self, c, method, params) == Returned(self, c, None)

Server_initialized_terminates(self, c) == Returned(self, terminate(c), Unit)

Server_initialized(self, c) == Returned(self, c, Unit)

(* struct Empty *)

Empty == [struct |-> "Empty"]

Empty_initialized_noop(self, c) == Returned(self, c, Unit)

Empty_initialized(self, c) == Returned(self, terminate(c), Unit)

(* A handler that overrides none of the callbacks *)

Default == [struct |-> "Default"]

(* tests::LogServer *)

LogServer_default ==
    [struct |-> "LogServer", serial |-> 0, rpc |-> <<>>, notification |-> <<>>,
     initialized |-> <<>>]

LogServer_update(self, what) ==
    LET serial == self.serial + 1
    IN  [self EXCEPT !.serial = serial, ![what] = Append(@, serial)]

LogServer_rpc(self, c, method, params) ==
    LET logged == LogServer_update(self, "rpc")
    IN  IF params.tag # "None"
        THEN Returned(logged, c, Panic(AssertMsg))
        ELSE Returned(logged, c,
                      IF method = "test"
                      THEN Some(IntoFuture(Ok(RBool(TRUE))))
                      ELSE None)

LogServer_notification(self, c, method, params) ==
    LET logged == LogServer_update(self, "notification")
    IN  IF params.tag # "None"
        THEN Returned(logged, c, Panic(AssertMsg))
        ELSE Returned(logged, c,
                      IF method = "notification"
                      THEN Some(IntoFuture(Ok(RUnit)))
                      ELSE None)

LogServer_initialized(self, c) ==
    Returned(LogServer_update(self, "initialized"), c, Unit)

(* An arbitrary implementation S of the trait: what each callback answers  *)
(* is the implementer's choice, given to the model as the call's oracle.   *)

Generic == [struct |-> "Generic"]

RpcAnswers ==
    {None} \cup { Some(IntoFuture(Ok(v))) : v \in SuccessValues }
           \cup { Some(IntoFuture(Err(e))) : e \in RPCErrors }

NotificationAnswers ==
    { None, Some(IntoFuture(Ok(RUnit))), Some(IntoFuture(Err(RUnit))) }

InitializedEffects == { "nothing", "terminate" }

Generic_rpc(self, c, method, params, answer) == Returned(self, c, answer)

Generic_notification(self, c, method, params, answer) ==
    Returned(self, c, answer)

Generic_initialized(self, c, effect) ==
    Returned(self, IF effect = "terminate" THEN terminate(c) ELSE c, Unit)

(* Static dispatch on the handler's type *)

S_rpc(self, c, method, params, answer) ==
    CASE self.struct = "LogServer" -> LogServer_rpc(self, c, method, params)
      [] self.struct = "Generic" -> Generic_rpc(self, c, method, params, answer)
      [] OTHER -> Server_rpc(self, c, method, params)

S_notification(self, c, method, params, answer) ==
    CASE self.struct = "LogServer" ->
            LogServer_notification(self, c, method, params)
      [] self.struct = "Generic" ->
            Generic_notification(self, c, method, params, answer)
      [] OTHER -> Server_notification(self, c, method, params)

S_initialized(self, c, effect) ==
    CASE self.struct = "LogServer" -> LogServer_initialized(self, c)
      [] self.struct = "Generic" -> Generic_initialized(self, c, effect)
      [] self.struct = "Empty" -> Empty_initialized(self, c)
      [] OTHER -> Server_initialized(self, c)

Handlers == { Default, Empty, LogServer_default, Generic }

\* The answers the implementer of self may choose from.
RpcOracle(self) ==
    IF self.struct = "Generic" THEN RpcAnswers ELSE {None}
NotificationOracle(self) ==
    IF self.struct = "Generic" THEN NotificationAnswers ELSE {None}
InitializedOracle(self) ==
    IF self.struct = "Generic" THEN InitializedEffects ELSE {"nothing"}

-----------------------------------------------------------------------------
(* struct AbstractServer<S: Server>(S) *)

AbstractServer_new(s) == <<s>>

AbstractServer_into_inner_fresh(self) ==
    IF self[1].struct = "LogServer" THEN LogServer_default ELSE self[1]

AbstractServer_into_inner(self) == self[1]

\* The boxed future of rpc: the inner future mapped through to_value.
BoxMapToValue(f) == [fut |-> "BoxMapToValue", inner |-> f]
\* The boxed future of notification.
BoxFuture(f) == [fut |-> "Box", inner |-> f]

AbstractServer_rpc_swallows(self, c, method, params, answer) ==
    LET r == S_rpc(self[1], c, method, params, answer)
    IN  [self |-> <<r.self>>, ctl |-> r.ctl,
         ret |-> IF r.ret.tag = "Some"
                 THEN Some(BoxMapToValue(r.ret.val))
                 ELSE IF r.ret.tag = "None"
                 THEN Some(BoxMapToValue(IntoFuture(Ok(RUnit))))
                 ELSE r.ret]

AbstractServer_rpc_unconverted(self, c, method, params, answer) ==
    LET r == S_rpc(self[1], c, method, params, answer)
    IN  [self |-> <<r.self>>, ctl |-> r.ctl,
         ret |-> IF r.ret.tag = "Some"
                 THEN Some(BoxFuture(r.ret.val))
                 ELSE r.ret]

AbstractServer_rpc_masks_error(self, c, method, params, answer) ==
    LET r == S_rpc(self[1], c, method, params, answer)
    IN  [self |-> <<r.self>>, ctl |-> r.ctl,
         ret |-> IF r.ret.tag = "Some"
                 THEN IF r.ret.val.out.tag = "Err"
                      THEN Some(BoxMapToValue(IntoFuture(Err(
                               [code |-> -32603,
                                message |-> "Internal error"]))))
                      ELSE Some(BoxMapToValue(r.ret.val))
                 ELSE r.ret]

AbstractServer_rpc(self, c, method, params, answer) ==
    LET r == S_rpc(self[1], c, method, params, answer)
    IN  [self |-> <<r.self>>, ctl |-> r.ctl,
         ret |-> IF r.ret.tag = "Some"
                 THEN Some(BoxMapToValue(r.ret.val))
                 ELSE r.ret]

AbstractServer_notification_calls_rpc(self, c, method, params, answer) ==
    LET r == S_rpc(self[1], c, method, params, None)
    IN  [self |-> <<r.self>>, ctl |-> r.ctl,
         ret |-> IF r.ret.tag = "Some"
                 THEN Some(BoxFuture(r.ret.val))
                 ELSE r.ret]

AbstractServer_notification(self, c, method, params, answer) ==
    LET r == S_notification(self[1], c, method, params, answer)
    IN  [self |-> <<r.self>>, ctl |-> r.ctl,
         ret |-> IF r.ret.tag = "Some"
                 THEN Some(BoxFuture(r.ret.val))
                 ELSE r.ret]

AbstractServer_initialized_also_terminates(self, c, effect) ==
    LET r == S_initialized(self[1], c, effect)
    IN  [self |-> <<r.self>>, ctl |-> terminate(r.ctl), ret |-> r.ret]

AbstractServer_initialized(self, c, effect) ==
    LET r == S_initialized(self[1], c, effect)
    IN  [self |-> <<r.self>>, ctl |-> r.ctl, ret |-> r.ret]

-----------------------------------------------------------------------------
(* Future::wait on the futures above *)

RECURSIVE wait(_)
wait(f) ==
    CASE f.fut = "FutureResult" -> f.out
      [] f.fut = "Box" -> wait(f.inner)
      [] f.fut = "BoxMapToValue" ->
            LET r == wait(f.inner)
            IN  IF r.tag = "Ok"
                THEN LET j == to_value(r.val)
                     IN  IF j.tag = "Ok" THEN Ok(j.val) ELSE Panic(ExpectMsg)
                ELSE r
-----------------------------------------------------------------------------
(* The callers *)

Wrapped == abstract_server # <<>>

\* The subject's state, whatever holds it.
Subject == IF Wrapped THEN abstract_server[1][1] ELSE server[1]

CallBound(s) == IF s.struct = "LogServer" THEN MaxLogCalls ELSE MaxCalls

CanCall == panic = "" /\ Len(trace) < CallBound(reference)

\* The panic, if any, that a pair of outcomes unwinds the caller with.
Unwound(a, b) ==
    IF a.tag = "Panic" THEN a.msg ELSE IF b.tag = "Panic" THEN b.msg ELSE ""

\* The effects of one call: r on the subject, d on the reference.
Deliver(op, method, params, r, d) ==
    /\ abstract_server' = IF Wrapped THEN <<r.self>> ELSE <<>>
    /\ server' = IF Wrapped THEN <<>> ELSE <<r.self>>
    /\ reference' = d.self
    /\ ctl' = r.ctl
    /\ ctlRef' = d.ctl
    /\ call' = [op |-> op, method |-> method, params |-> params,
                wrapped |-> Wrapped]
    /\ ret' = r.ret
    /\ retRef' = d.ret
    /\ res' = NotPolled
    /\ resRef' = NotPolled
    /\ panic' = Unwound(r.ret, d.ret)
    /\ trace' = Append(trace, op)
    /\ through' = IF Wrapped THEN through + 1 ELSE through

Rpc(method, params, answer) ==
    /\ CanCall
    /\ Deliver("rpc", method, params,
               IF Wrapped
               THEN AbstractServer_rpc(abstract_server[1], ctl, method, params,
                                       answer)
               ELSE S_rpc(server[1], ctl, method, params, answer),
               S_rpc(reference, ctlRef, method, params, answer))

Notification(method, params, answer) ==
    /\ CanCall
    /\ Deliver("notification", method, params,
               IF Wrapped
               THEN AbstractServer_notification(abstract_server[1], ctl, method,
                                                params, answer)
               ELSE S_notification(server[1], ctl, method, params, answer),
               S_notification(reference, ctlRef, method, params, answer))

Initialized(effect) ==
    /\ CanCall
    /\ Deliver("initialized", "", None,
               IF Wrapped
               THEN AbstractServer_initialized(abstract_server[1], ctl, effect)
               ELSE S_initialized(server[1], ctl, effect),
               S_initialized(reference, ctlRef, effect))

\* The caller drives the futures of the latest call to completion.
Wait ==
    /\ panic = ""
    /\ res = NotPolled /\ resRef = NotPolled
    /\ ret.tag = "Some" \/ retRef.tag = "Some"
    /\ res' = IF ret.tag = "Some" THEN wait(ret.val) ELSE NotPolled
    /\ resRef' = IF retRef.tag = "Some" THEN wait(retRef.val) ELSE NotPolled
    /\ panic' = Unwound(res', resRef')
    /\ UNCHANGED <<abstract_server, server, reference, ctl, ctlRef, call, ret,
                   retRef, trace, through>>

\* AbstractServer::new(server)
New ==
    /\ panic = ""
    /\ server # <<>>
    /\ abstract_server' = <<AbstractServer_new(server[1])>>
    /\ server' = <<>>
    /\ UNCHANGED <<reference, ctl, ctlRef, call, ret, retRef, res, resRef,
                   panic, trace, through>>

\* abstract_server.into_inner()
IntoInner ==
    /\ panic = ""
    /\ abstract_server # <<>>
    /\ server' = <<AbstractServer_into_inner(abstract_server[1])>>
    /\ abstract_server' = <<>>
    /\ UNCHANGED <<reference, ctl, ctlRef, call, ret, retRef, res, resRef,
                   panic, trace, through>>

Init ==
    /\ \E h \in Handlers : server = <<h>> /\ reference = h
    /\ abstract_server = <<>>
    /\ ctl = NewCtl
    /\ ctlRef = NewCtl
    /\ call = [op |-> "none", method |-> "", params |-> None,
               wrapped |-> FALSE]
    /\ ret = Unit
    /\ retRef = Unit
    /\ res = NotPolled
    /\ resRef = NotPolled
    /\ panic = ""
    /\ trace = <<>>
    /\ through = 0

Next ==
    \/ \E m \in Methods, p \in ParamsSet, a \in RpcOracle(reference) :
          Rpc(m, p, a)
    \/ \E m \in Methods, p \in ParamsSet, a \in NotificationOracle(reference) :
          Notification(m, p, a)
    \/ \E e \in InitializedOracle(reference) : Initialized(e)
    \/ Wait
    \/ New
    \/ IntoInner

Spec == Init /\ [][Next]_vars
-----------------------------------------------------------------------------
(* Properties *)

\* How many times op has been called so far.
Count(op) == Cardinality({ i \in 1..Len(trace) : trace[i] = op })

Range(seq) == { seq[i] : i \in 1..Len(seq) }

Increasing(seq) == \A i, j \in 1..Len(seq) : i < j => seq[i] < seq[j]

\* The latest call was op, made on the AbstractServer.
Through(op) == call.op = op /\ call.wrapped

\* The inner rpc future resolved to a value that to_value rejects.
ConversionFails ==
    /\ Through("rpc")
    /\ resRef.tag = "Ok"
    /\ to_value(resRef.val).tag = "Err"

\* C1: when to_value fails on the inner handler's successful value, the
\* adapter's outcome resolves to an internal-error result and the caller that
\* drives the outcome is not unwound by a panic.
C1_ConversionFailureContained ==
    ConversionFails => res.tag = "Err" /\ panic = ""

\* C2: the adapter's rpc and notification return None exactly when the inner
\* handler's callback returns None for the same arguments (and unwind exactly
\* when it unwinds), so an unknown method is never turned into an accepted
\* call.
C2_NoneTransparency ==
    Through("rpc") \/ Through("notification") =>
        /\ ret.tag = "None" <=> retRef.tag = "None"
        /\ ret.tag = "Some" <=> retRef.tag = "Some"
        /\ ret.tag = "Panic" <=> retRef.tag = "Panic"

C2_Witness ==
    /\ Through("rpc")
    /\ call.method = "another"
    /\ reference.struct = "LogServer"
    /\ ret = None
    /\ retRef = None

C4_FailuresForwarded ==
    /\ Through("rpc") /\ resRef.tag = "Err" => res = resRef /\ panic = ""
    /\ Through("notification") /\ resRef.tag \in {"Ok", "Err"} =>
          res = resRef /\ panic = ""
    /\ Through("notification") /\ res.tag \in {"Ok", "Err"} => res = resRef

C4_Witness ==
    /\ Through("rpc")
    /\ res = Err([code |-> -32602, message |-> "Invalid params"])
    /\ resRef = res

\* C5: every initialized of Empty calls terminate exactly once, so the
\* termination signal has fired exactly once after the first initialized and
\* not at all before it.
C5_EmptyTerminatesOnInitialized ==
    reference.struct = "Empty" =>
        /\ ctlRef.terminate_calls = Count("initialized")
        /\ ctlRef.dropped = IF Count("initialized") = 0 THEN 0 ELSE 1

C5_Witness ==
    /\ reference.struct = "Empty"
    /\ Count("initialized") = 1
    /\ ctlRef.terminate_calls = 1
    /\ ctlRef.dropped = 1

\* C6: rpc and notification of Empty return None for every method and
\* parameters, whatever was called before, and leave the control handle as it
\* was.
C6_EmptyDeclinesEverything ==
    [][reference.struct = "Empty" /\ call'.op \in {"rpc", "notification"}
       /\ trace' # trace
          => retRef' = None /\ ctlRef' = ctlRef /\ reference' = reference]_vars

C6_Witness ==
    /\ reference.struct = "Empty"
    /\ call.op = "rpc"
    /\ call.params # None
    /\ Count("initialized") >= 1
    /\ retRef = None

\* C7: initialized on the adapter has the effect of initialized on the inner
\* handler: the inner callback runs exactly once, the control handle ends as
\* the inner handler leaves it, and the adapter does nothing more to it.
C7_InitializedPassThrough ==
    Through("initialized") =>
        /\ ctl = ctlRef
        /\ Subject = reference
        /\ ret = retRef
        /\ Subject.struct = "LogServer" =>
              Len(Subject.initialized) = Count("initialized")

C7_Witness ==
    /\ Through("initialized")
    /\ Wrapped
    /\ reference.struct = "Empty"
    /\ ctl.terminate_calls = 1
    /\ ctl.dropped = 1

\* C8: into_inner gives back the handler in the state it would have had if
\* every call had been made on it directly, so new then into_inner gives back
\* the handler unchanged; the adapter holds the inner handler and nothing else.
C8_RoundTrip ==
    /\ server # <<>> => server[1] = reference
    /\ Wrapped => abstract_server[1] = <<reference>>
    /\ ~call.wrapped /\ call.op # "none" => ret = retRef /\ ctl = ctlRef

C8_Witness ==
    /\ server # <<>>
    /\ call.wrapped
    /\ through = Len(trace)
    /\ server[1].struct = "LogServer"
    /\ server[1].serial = 3
    /\ server[1] = reference

\* C9: a handler that overrides no callback returns None from rpc and
\* notification for every method and parameters, and its initialized neither
\* calls terminate nor changes any state.
C9_DefaultCallbacks ==
    reference.struct = "Default" =>
        /\ call.op \in {"rpc", "notification"} => retRef = None
        /\ call.op = "initialized" => retRef = Unit
        /\ ctlRef = NewCtl
        /\ reference = Default

C9_Witness ==
    /\ reference.struct = "Default"
    /\ call.op = "initialized"
    /\ Count("rpc") >= 1
    /\ Count("notification") >= 1

\* C10: every call on the adapter runs the matching callback of the inner
\* LogServer exactly once and in arrival order, also when it answers None:
\* the k-th call is logged as k under its own category, and two rpc calls
\* interleaved with two notifications followed by initialized are logged as
\* rpc 1 and 3, notification 2 and 4, initialized 5, with serial 5.
C10_ArrivalOrder ==
    Subject.struct = "LogServer" =>
        /\ Subject.serial = Len(trace)
        /\ \A k \in 1..Len(trace) :
              /\ k \in Range(Subject[trace[k]])
              /\ \A op \in {"rpc", "notification", "initialized"} \ {trace[k]} :
                    k \notin Range(Subject[op])
        /\ \A op \in {"rpc", "notification", "initialized"} :
              /\ Increasing(Subject[op])
              /\ Len(Subject[op]) = Count(op)
        /\ trace = <<"rpc", "notification", "rpc", "notification",
                     "initialized">> =>
              /\ Subject.rpc = <<1, 3>>
              /\ Subject.notification = <<2, 4>>
              /\ Subject.initialized = <<5>>
              /\ Subject.serial = 5

C10_Witness ==
    /\ Subject.struct = "LogServer"
    /\ through = 5
    /\ trace = <<"rpc", "notification", "rpc", "notification", "initialized">>
    /\ Subject.rpc = <<1, 3>>
    /\ Subject.notification = <<2, 4>>
    /\ Subject.initialized = <<5>>
    /\ Subject.serial = 5

====
